---- MODULE Spec2Model ----
(***************************************************************************)
(* Model of the prediction pipeline of src/predict.py: the result cache    *)
(* (PredictionCache), the image fetcher with its CDN rate limiter          *)
(* (Prediction.preprocess_image, Prediction._rate_limit_cdn_request), the  *)
(* one-time model initialisation and the two-stage cascade                 *)
(* (Prediction.predict).                                                   *)
(*                                                                         *)
(* Time is counted in clock ticks and kept relative to the present: a      *)
(* reading of time.time() is now = 0, a stored time is the (negative)      *)
(* number of ticks it lies in the past, a wake-up time the number of ticks *)
(* it lies ahead.  When a tick passes, every stored time moves one tick    *)
(* back.  The code only compares differences of clock readings with its    *)
(* thresholds, so a time further back than every threshold (Past ticks)    *)
(* is kept as -Past.                                                       *)
(*                                                                         *)
(* One asyncio task runs from one await that suspends to the next without  *)
(* interleaving, so one action is one such run.                            *)
(***************************************************************************)
EXTENDS Integers, FiniteSets, Sequences, TLC

\* ------------------------------------------------------------------ bounds
\* PredictionCache.max_size values explored by the cache specification
\* (1..MaxSize); the code's default is 1000.
MaxSize == 2
\* PredictionCache.ttl_seconds in clock ticks; the code's default is 3600 s.
TtlTicks == 2
\* Number of distinct cache keys the cache specification uses.
NumKeys == 3
\* PredictionCache.max_size of the eviction specification: large enough for
\* a fifth of the entries to be more than one entry.
EvictSize == 10

\* Concurrent callers of predict in the cascade specification.
NumCallers == 2
\* Concurrent callers of preprocess_image in the rate-limiter specification:
\* one more than the semaphore admits.
NumCdnCallers == 4
\* Clock ticks after which a task in a backoff sleep (1 s or longer in the
\* code, longer than every interval the rate limiter measures) may resume.
SleepFloor == 2

\* ------------------------------------------------------ program constants
\* self._cdn_min_interval = 0.1 s, in clock ticks of 50 ms
CdnMinInterval == 2
\* asyncio.Semaphore(3)
CdnConcurrency == 3
\* max_retries=4
MaxRetries == 4
\* primary_confidence_pct >= 85.0, in thousandths of a percent
PrimaryThreshold == 85000
\* secondary_confidence_pct >= 90.0, in thousandths of a percent
SecondaryThreshold == 90000
\* clock ticks in half a second, the unit of the backoff delays
HalfSecond == 10

\* ---------------------------------------------------------------- helpers
\* Python's None, where a tuple is expected.
None == <<>>

Max(a, b) == IF a >= b THEN a ELSE b

Min(a, b) == IF a <= b THEN a ELSE b

\* dict.pop(key, None) for every key of K
Drop(f, K) == [k \in (DOMAIN f) \ K |-> f[k]]

\* dict[key] = value
Put(f, key, value) == [k \in (DOMAIN f) \cup {key} |-> IF k = key THEN value ELSE f[k]]

EmptyDict == [k \in {} |-> None]

\* ------------------------------------------------------- PredictionCache
Keys == 1..NumKeys

\* Values the cache specification stores: (name, confidence, model_used).
CacheValues == {<<"Pikachu", 9200, "primary">>, <<"Eevee", 9500, "secondary">>}

\* PredictionCache._cleanup_expired at clock reading t: the keys whose
\* timestamp is more than ttl old are popped from both dicts.
ExpiredKeys_ge(ts, t, ttl) == {k \in DOMAIN ts : t - ts[k] >= ttl}

ExpiredKeys(ts, t, ttl) == {k \in DOMAIN ts : t - ts[k] > ttl}

_cleanup_expired_lazy(c, ts, t, ttl) == [cache |-> c, timestamps |-> ts]

_cleanup_expired(c, ts, t, ttl) ==
    [cache |-> Drop(c, ExpiredKeys(ts, t, ttl)),
     timestamps |-> Drop(ts, ExpiredKeys(ts, t, ttl))]

\* PredictionCache.get: the sweep reads the clock at t1, the freshness test
\* of the requested key reads it again at t2 >= t1.
get_strict(c, ts, key, t1, t2, ttl) ==
    LET s == _cleanup_expired(c, ts, t1, ttl) IN
    IF key \in DOMAIN s.cache
    THEN IF t2 - s.timestamps[key] < ttl
         THEN [cache |-> s.cache, timestamps |-> s.timestamps, ret |-> s.cache[key]]
         ELSE [cache |-> Drop(s.cache, {key}),
               timestamps |-> Drop(s.timestamps, {key}), ret |-> None]
    ELSE [cache |-> s.cache, timestamps |-> s.timestamps, ret |-> None]

get(c, ts, key, t1, t2, ttl) ==
    LET s == _cleanup_expired(c, ts, t1, ttl) IN
    IF key \in DOMAIN s.cache
    THEN IF t2 - s.timestamps[key] <= ttl
         THEN [cache |-> s.cache, timestamps |-> s.timestamps, ret |-> s.cache[key]]
         ELSE [cache |-> Drop(s.cache, {key}),
               timestamps |-> Drop(s.timestamps, {key}), ret |-> None]
    ELSE [cache |-> s.cache, timestamps |-> s.timestamps, ret |-> None]

\* min(self.timestamps.keys(), key=lambda k: self.timestamps[k]): a key of
\* minimal timestamp.  Python returns the first minimal key in dict order;
\* the model keeps no dict order and allows any key of minimal timestamp.
OldestKeys_newest(ts) == {k \in DOMAIN ts : \A j \in DOMAIN ts : ts[k] >= ts[j]}

OldestKeys(ts) == {k \in DOMAIN ts : \A j \in DOMAIN ts : ts[k] <= ts[j]}

\* Keys that line 71-74 of set removes: none below capacity, else one oldest
\* key.  The result is the set of possible victim sets.
EvictChoices_gt(c, ts, max) ==
    IF Cardinality(DOMAIN c) > max
    THEN {{k} : k \in OldestKeys(ts)}
    ELSE {{}}

\* The batch eviction of a fifth of the entries, oldest first.
EvictChoices_batch(c, ts, max) ==
    IF Cardinality(DOMAIN c) >= max
    THEN {V \in SUBSET (DOMAIN ts) :
            /\ Cardinality(V) = Max(1, Cardinality(DOMAIN ts) \div 5)
            /\ \A v \in V, r \in (DOMAIN ts) \ V : ts[v] <= ts[r]}
    ELSE {{}}

EvictChoices(c, ts, max) ==
    IF Cardinality(DOMAIN c) >= max
    THEN {{k} : k \in OldestKeys(ts)}
    ELSE {{}}

\* PredictionCache.set: sweep at t1, evict, store with the clock reading t2.
\* The set of possible outcomes (one per possible victim).
set_unstamped(c, ts, key, value, t1, t2, ttl, max) ==
    LET s == _cleanup_expired(c, ts, t1, ttl) IN
    {[cache |-> Put(Drop(s.cache, V), key, value),
      timestamps |-> Drop(s.timestamps, V \cup {key}),
      swept |-> s,
      evicted |-> V] : V \in EvictChoices(s.cache, s.timestamps, max)}

set(c, ts, key, value, t1, t2, ttl, max) ==
    LET s == _cleanup_expired(c, ts, t1, ttl) IN
    {[cache |-> Put(Drop(s.cache, V), key, value),
      timestamps |-> Put(Drop(s.timestamps, V), key, t2),
      swept |-> s,
      evicted |-> V] : V \in EvictChoices(s.cache, s.timestamps, max)}

\* ------------------------------------------------------------- Prediction
\* The five artifacts ModelDownloader.ensure_models_cached looks for.
Artifacts == {"pokemon_cnn_v2.onnx", "labels_v2.json", "poketwo_pokemon_model.onnx",
              "poketwo_pokemon_model.onnx.data", "model_metadata.json"}

\* Outcomes of one download: the HTTP status of the answer, 0 for a failure
\* of the transport, or -1 for a 200 whose body could not be written in full
\* (open(dest_path, 'wb') has created the file and f.write raises).
DownloadAnswers == {200, 401, 404, 500, 0, -1}

\* ModelDownloader.download_file: True when the answer is a 200 and the file
\* is written, False for every other outcome, whose exception it catches.
download_file(answer) == answer = 200

\* The outcomes of download_file after which a file exists at dest_path:
\* the file is created by open(dest_path, 'wb') and nothing removes it when
\* the write fails.
dest_path_exists(answer) == answer \in {200, -1}

\* download_tasks of ensure_models_cached: one download per artifact whose
\* path does not exist (exists: the artifacts that os.path.exists finds).
download_tasks_all(exists) == Artifacts

download_tasks(exists) == Artifacts \ exists

\* all(results) of ensure_models_cached.
all_any(results) == \E a \in DOMAIN results : results[a]

all(results) == \A a \in DOMAIN results : results[a]

\* The test of models_initialized that guards initialize_models.
NeedsInit_always(flag) == TRUE

NeedsInit_never(flag) == FALSE

NeedsInit(flag) == ~flag

\* Hosts that preprocess_image treats as the Discord CDN.
CdnHosts == {"cdn.discordapp.com", "media.discordapp.net"}

\* is_discord_cdn: the URL names one of the CDN hosts.
IsDiscordCdn(url) == url.host \in CdnHosts

\* URLs the callers of predict ask for.
Urls == {[host |-> "cdn.discordapp.com", path |-> "/a.png"],
         [host |-> "example.com", path |-> "/b.png"]}

\* URLs the callers of preprocess_image ask for.
CdnUrls == {[host |-> "cdn.discordapp.com", path |-> "/a.png"],
            [host |-> "media.discordapp.net", path |-> "/b.png"]}

NoUrl == [host |-> "", path |-> ""]

\* Prediction._generate_cache_key: the MD5 digest of the URL, one digest per
\* URL.
_generate_cache_key(url) == <<"md5", url.host, url.path>>

\* The images behind the URLs.  Inference is deterministic: for an image,
\* predict_with_model yields a fixed (name, probability) per model; the
\* probability is kept as a percentage in thousandths of a percent.
Images == {"pikachu", "onix", "eevee", "zubat", "abra"}

PrimaryOutput(img) ==
    CASE img = "pikachu" -> <<"Pikachu", 92000>>
      [] img = "onix"    -> <<"Onix", 85000>>
      [] img = "eevee"   -> <<"Eevee", 40000>>
      [] img = "zubat"   -> <<"Zubat", 84996>>
      [] img = "abra"    -> <<"Abra", 84996>>

SecondaryOutput(img) ==
    CASE img = "pikachu" -> <<"Raichu", 95000>>
      [] img = "onix"    -> <<"Steelix", 99000>>
      [] img = "eevee"   -> <<"Eevee", 95000>>
      [] img = "zubat"   -> <<"Golbat", 90000>>
      [] img = "abra"    -> <<"Kadabra", 89996>>

\* Prediction.predict_with_model with the session and labels of a stage.
predict_with_model(img, stage) ==
    IF stage = "primary" THEN PrimaryOutput(img) ELSE SecondaryOutput(img)

\* Decision point A (line 416) and decision point B (line 443).
AcceptPrimary_gt(pct) == pct > PrimaryThreshold

AcceptPrimary(pct) == pct >= PrimaryThreshold

AcceptSecondary_gt(pct) == pct > SecondaryThreshold

AcceptSecondary(pct) == pct >= SecondaryThreshold

\* Lines 449-453: below both thresholds the primary's (name, probability) is
\* the result, whatever the secondary's is.
Fallback_best(primary, secondary) == IF secondary[2] > primary[2] THEN secondary ELSE primary

Fallback(primary, secondary) == primary

\* f"{pct:.2f}%": the percentage rounded to hundredths of a percent; the
\* string "NN.NN%" is kept as the number of hundredths.
FormatConfidence_prob(pct) == (pct + 500) \div 1000

FormatConfidence(pct) == (pct + 5) \div 10

\* Answers of the image host to one request: a status with a body or with a
\* Retry-After header, or a failure of the transport.
Responses ==
    {[kind |-> "status", status |-> st, body |-> "", retry_after |-> "absent"] :
        st \in {404, 403, 500, 502, 503, 504, 599}}
    \cup {[kind |-> "status", status |-> 200, body |-> b, retry_after |-> "absent"] :
        b \in {"image", "small", "corrupt"}}
    \cup {[kind |-> "status", status |-> 429, body |-> "", retry_after |-> ra] :
        ra \in {"absent", "1", "Wed, 21 Oct 2026 07:28:00 GMT"}}
    \cup {[kind |-> k, status |-> 0, body |-> "", retry_after |-> "absent"] :
        k \in {"timeout", "client_error"}}

\* No answer received yet.
NoResp == [kind |-> "none", status |-> 0, body |-> "", retry_after |-> "absent"]

\* 2 ** attempt
Pow2_linear(n) == n + 1

Pow2(n) == IF n = 0 THEN 1 ELSE IF n = 1 THEN 2 ELSE IF n = 2 THEN 4 ELSE 8

\* The statuses of line 280 that are retried as server errors.
RetryStatuses_5xx == 500..599

RetryStatuses == {502, 503, 504}

\* The 404 of line 273 is retried for a CDN URL while attempts remain.
Retry404_any(is_cdn, more) == more

Retry404(is_cdn, more) == is_cdn /\ more

\* What one pass of the retry loop of preprocess_image does with an answer:
\* sleep and retry (delay in half seconds), raise ValueError, or go on with
\* the image.
Retry(delay) == [do |-> "retry", delay |-> delay, err |-> ""]

Raise(err) == [do |-> "raise", delay |-> 0, err |-> err]

Handle(resp, attempt, is_cdn) ==
    LET more == attempt < MaxRetries - 1 IN
    CASE resp.kind = "timeout" ->
            IF more THEN Retry(3 * Pow2(attempt))
            ELSE Raise("Timeout fetching image after max_retries attempts")
      [] resp.kind = "client_error" ->
            IF more THEN Retry(3 * Pow2(attempt))
            ELSE Raise("Network error after max_retries attempts")
      [] resp.kind = "status" /\ resp.status = 429 ->
            IF resp.retry_after \notin {"absent", "1"}
            THEN Raise("invalid literal for int()")
            ELSE IF more
            THEN Retry(IF resp.retry_after = "absent" THEN 2 * 2 ELSE 2 * 1)
            ELSE Raise("Rate limited by Discord CDN after max_retries attempts")
      [] resp.kind = "status" /\ resp.status = 404 ->
            IF Retry404(is_cdn, more) THEN Retry(2 * Pow2(attempt))
            ELSE Raise("Image not found (404) - URL may be expired or deleted")
      [] resp.kind = "status" /\ resp.status \in RetryStatuses ->
            IF more THEN Retry(4 * Pow2(attempt))
            ELSE Raise("Server error after max_retries attempts")
      [] resp.kind = "status" /\ resp.status \notin {429, 404, 200} \cup RetryStatuses ->
            Raise("HTTP error fetching image")
      [] resp.kind = "status" /\ resp.status = 200 ->
            IF resp.body = "small" THEN Raise("Received invalid/empty image data")
            ELSE IF resp.body = "corrupt" THEN Raise("Failed to process image data")
            ELSE [do |-> "image", delay |-> 0, err |-> ""]

\* Clock ticks an asyncio.sleep of the given number of half seconds lasts at
\* least.
SleepTicks(delay) == Min(delay * HalfSecond, SleepFloor)

\* The record of one caller: where its coroutine is suspended (pc), the
\* arguments and locals of its call, and what the call returned or raised.
\* History of the call: loaded tells that the call has loaded the labels and
\* both inference sessions, resp is the last answer the current
\* preprocess_image call has received, requests counts the session.get calls of the current
\* preprocess_image call, fetched and inferred hold the stages for which the
\* predict call has requested the image and run the model.  A call of predict
\* made by the on_message handler has handler set, and model_used is the tag
\* the handler has read.
IdleTask ==
    [pc |-> "idle", call |-> "", url |-> NoUrl, stage |-> "", attempt |-> 0,
     wake |-> 0, delay |-> 0, dl |-> {}, primary |-> None,
     ret |-> None, err |-> "", hit |-> FALSE,
     requests |-> 0, fetched |-> {}, inferred |-> {},
     loaded |-> FALSE, resp |-> NoResp,
     handler |-> FALSE, model_used |-> ""]

\* ------------------------------------------------------------------- time
\* A reading of time.time(): the present.
now == 0

\* Stored times at least this many ticks back are kept as -Past; no
\* threshold of the code tells them apart.
Past == Max(TtlTicks + 1, CdnMinInterval)

\* A time t as seen d ticks later.
Later(t, d) == Max(t - d, -Past)

\* A dict of times as seen d ticks later.
Shift(ts, d) == [k \in DOMAIN ts |-> Later(ts[k], d)]

\* ------------------------------------------------------------------ state
VARIABLES
    cache,        \* PredictionCache.cache: key -> (name, confidence, model_used)
    timestamps,   \* PredictionCache.timestamps: key -> time of the last set
    max_size,     \* PredictionCache.max_size
    ttl_seconds,  \* PredictionCache.ttl_seconds, in clock ticks
    lastOp,       \* history: the last cache operation and what it returned
    hist,         \* history: per key, the last set that was not evicted since
    models_initialized,  \* Prediction.models_initialized
    disk,         \* the artifacts that exist in CACHE_DIR
    _cdn_semaphore,      \* free slots of Prediction._cdn_semaphore
    _last_cdn_request,   \* Prediction._last_cdn_request
    image,        \* the image each URL serves
    task          \* the callers' coroutines

cvars == <<cache, timestamps, max_size, ttl_seconds, lastOp, hist>>

pvars == <<models_initialized, disk, _cdn_semaphore, _last_cdn_request,
           image, task>>

vars == <<cache, timestamps, max_size, ttl_seconds, lastOp, hist,
          models_initialized, disk, _cdn_semaphore, _last_cdn_request,
          image, task>>

\* Prediction.__init__, apart from the cache; no caller yet.
InitPrediction ==
    /\ models_initialized = FALSE
    /\ _cdn_semaphore = CdnConcurrency
    /\ _last_cdn_request = -Past

NoOp == [op |-> "none", key |-> 0, ret |-> None, evicted |-> {}, flip |-> FALSE]

NoHist == [t |-> -Past, v |-> None, live |-> FALSE]

\* PredictionCache.__init__(max_size, ttl_seconds)
InitCache ==
    /\ cache = EmptyDict
    /\ timestamps = EmptyDict
    /\ max_size \in 1..MaxSize
    /\ ttl_seconds = TtlTicks
    /\ lastOp = NoOp
    /\ hist = [k \in Keys |-> NoHist]
    /\ InitPrediction
    /\ disk = {}
    /\ image = [u \in {} |-> ""]
    /\ task = [t \in {} |-> IdleTask]

\* PredictionCache(max_size=EvictSize): the cache of the capacity scenario,
\* which inserts max_size + 1 distinct keys.
EvictKeys == 1..(EvictSize + 1)

InitEvict ==
    /\ cache = EmptyDict
    /\ timestamps = EmptyDict
    /\ max_size = EvictSize
    /\ ttl_seconds = TtlTicks
    /\ lastOp = NoOp
    /\ hist = [k \in EvictKeys |-> NoHist]
    /\ InitPrediction
    /\ disk = {}
    /\ image = [u \in {} |-> ""]
    /\ task = [t \in {} |-> IdleTask]

\* The history of the sets as seen d ticks later.
HistLater(h, d) == [k \in DOMAIN h |-> [h[k] EXCEPT !.t = Later(h[k].t, d)]]

\* One clock tick passes between two cache operations.
Tick ==
    /\ timestamps' = Shift(timestamps, 1)
    /\ hist' = HistLater(hist, 1)
    /\ UNCHANGED <<cache, max_size, ttl_seconds, lastOp, pvars>>

\* A call of PredictionCache.get(key); d ticks pass between its two readings
\* of time.time().
Get(key, d) ==
    /\ LET g == get(cache, timestamps, key, now, now + d, ttl_seconds) IN
       /\ cache' = g.cache
       /\ timestamps' = Shift(g.timestamps, d)
       /\ lastOp' = [op |-> "get", key |-> key, ret |-> g.ret, evicted |-> {},
                     flip |-> ~lastOp.flip]
    /\ hist' = HistLater(hist, d)
    /\ UNCHANGED <<max_size, ttl_seconds, pvars>>

\* A call of PredictionCache.set(key, value); d ticks pass between the sweep
\* and the reading of time.time() stored as the timestamp.
Set(key, value, d) ==
    /\ \E r \in set(cache, timestamps, key, value, now, now + d, ttl_seconds, max_size) :
       /\ cache' = r.cache
       /\ timestamps' = Shift(r.timestamps, d)
       /\ lastOp' = [op |-> "set", key |-> key, ret |-> None, evicted |-> r.evicted,
                     flip |-> ~lastOp.flip]
       /\ hist' = [k \in DOMAIN hist |->
                     IF k = key THEN [t |-> now, v |-> value, live |-> TRUE]
                     ELSE IF k \in r.evicted THEN NoHist
                     ELSE HistLater(hist, d)[k]]
    /\ UNCHANGED <<max_size, ttl_seconds, pvars>>

NextCache ==
    \/ Tick
    \/ \E key \in Keys, d \in 0..1 : Get(key, d)
    \/ \E key \in Keys, value \in CacheValues, d \in 0..1 : Set(key, value, d)

SpecCache == InitCache /\ [][NextCache]_vars

\* The capacity scenario: distinct keys are inserted one after the other
\* (each key is the successor of the key inserted before), interleaved with
\* the passing of time.
NextEvict ==
    \/ Tick
    \/ \E d \in 0..1 :
         /\ lastOp.key + 1 \in DOMAIN hist
         /\ Set(lastOp.key + 1, <<"Pikachu", 9200, "primary">>, d)

SpecEvict == InitEvict /\ [][NextEvict]_vars

\* ------------------------------------------------------ cache properties
\* A step that is a call of get / of set.
GetStep == lastOp' # lastOp /\ lastOp'.op = "get"

SetStep == lastOp' # lastOp /\ lastOp'.op = "set"

\* C5: get(key) returns None, and the entry is gone, once more than
\* ttl_seconds have passed since the last set of the key, whatever happened
\* in between; up to ttl_seconds after a set that was not evicted since,
\* get returns the value that set stored.
C5_GetHonoursTtl ==
    [][GetStep =>
        LET k == lastOp'.key IN
        IF hist'[k].live /\ now - hist'[k].t <= ttl_seconds
        THEN lastOp'.ret = hist'[k].v
        ELSE /\ lastOp'.ret = None
             /\ k \notin DOMAIN cache'
             /\ k \notin DOMAIN timestamps']_vars

\* A get of a key that was set, not evicted, and is now older than the TTL
\* has returned None.
C5_Witness ==
    /\ lastOp.op = "get"
    /\ hist[lastOp.key].live
    /\ now - hist[lastOp.key].t > ttl_seconds
    /\ lastOp.ret = None

\* C6: the cache never holds more than max_size entries.
C6_SizeBounded == Cardinality(DOMAIN cache) <= max_size

\* A set on a full cache has evicted and left the cache full again.
C6_Witness ==
    /\ lastOp.op = "set"
    /\ lastOp.evicted # {}
    /\ Cardinality(DOMAIN cache) = max_size

\* The unexpired entries a set step finds after its sweep.
Unexpired == (DOMAIN timestamps) \ ExpiredKeys(timestamps, now, ttl_seconds)

\* C7: every entry that set evicts to make room is at least as old as every
\* unexpired entry it leaves in place.
C7_EvictsOldest ==
    [][SetStep =>
        \A v \in lastOp'.evicted, r \in Unexpired \ lastOp'.evicted :
            timestamps[v] <= timestamps[r]]_vars

\* A set has evicted an entry and another, earlier entry remains.
C7_Witness ==
    /\ lastOp.op = "set"
    /\ lastOp.evicted # {}
    /\ \E r \in DOMAIN cache : r # lastOp.key /\ timestamps[r] < timestamps[lastOp.key]

Request(tr) == [tr EXCEPT !.pc = "http", !.wake = 0, !.requests = @ + 1,
                          !.fetched = @ \cup {tr.stage}]

\* What a run of a task leaves in the state the rate limiter shares.
Limiter(tr, sem, last) == [tr |-> tr, sem |-> sem, last |-> last]

\* Prediction._rate_limit_cdn_request from line 217, the semaphore held:
\* either the task sleeps for the rest of the interval, still holding the
\* semaphore, or it stamps _last_cdn_request, leaves the semaphore block and
\* sends its request.
RateLimit(tr) ==
    LET time_since_last == now - _last_cdn_request IN
    IF time_since_last < CdnMinInterval
    THEN Limiter([tr EXCEPT !.pc = "rl_sleep",
                            !.wake = now + (CdnMinInterval - time_since_last)],
                 _cdn_semaphore - 1, _last_cdn_request)
    ELSE Limiter(Request(tr), _cdn_semaphore, now)

\* One pass of the retry loop of preprocess_image up to its first await that
\* suspends: the rate limiter for a CDN URL, then the request.
StartAttempt(tr) ==
    IF IsDiscordCdn(tr.url)
    THEN IF _cdn_semaphore > 0
         THEN RateLimit(tr)
         ELSE Limiter([tr EXCEPT !.pc = "sem_wait"], _cdn_semaphore, _last_cdn_request)
    ELSE Limiter(Request(tr), _cdn_semaphore, _last_cdn_request)

\* The task's run ends at an await that suspends in preprocess_image.
Suspend(t, r) ==
    /\ task' = [task EXCEPT ![t] = r.tr]
    /\ _cdn_semaphore' = r.sem
    /\ _last_cdn_request' = r.last

\* The call returns (ret) or raises (err).
Returned(tr, ret) ==
    [tr EXCEPT !.pc = "done", !.ret = ret, !.attempt = 0, !.requests = 0, !.resp = NoResp]

Raised_fallback(tr, err) ==
    IF tr.primary # None
    THEN Returned(tr, <<tr.primary[1], FormatConfidence(tr.primary[2])>>)
    ELSE [tr EXCEPT !.pc = "failed", !.err = err]

Raised(tr, err) == [tr EXCEPT !.pc = "failed", !.err = err]

\* A caller calls preprocess_image(url, session) with the default size.
Preprocess(t, url) ==
    /\ task[t].pc = "idle"
    /\ Suspend(t, StartAttempt([IdleTask EXCEPT !.call = "preprocess", !.url = url,
                                                !.stage = "primary"]))
    /\ UNCHANGED <<cvars, models_initialized, disk, image>>

\* A task waiting for the semaphore gets it.
SemAcquire_lost(t) ==
    /\ task[t].pc = "sem_wait"
    /\ _cdn_semaphore > CdnConcurrency
    /\ Suspend(t, RateLimit(task[t]))
    /\ UNCHANGED <<cvars, models_initialized, disk, image>>

SemAcquire(t) ==
    /\ task[t].pc = "sem_wait"
    /\ _cdn_semaphore > 0
    /\ Suspend(t, RateLimit(task[t]))
    /\ UNCHANGED <<cvars, models_initialized, disk, image>>

\* The sleep of _rate_limit_cdn_request is over: line 221 stamps
\* _last_cdn_request, the semaphore is released and the request is sent.
RateLimitWake(t) ==
    /\ task[t].pc = "rl_sleep"
    /\ task[t].wake <= now
    /\ Suspend(t, Limiter(Request(task[t]), _cdn_semaphore + 1, now))
    /\ UNCHANGED <<cvars, models_initialized, disk, image>>

\* A backoff sleep is over: the next pass of the retry loop.
BackoffWake(t) ==
    /\ task[t].pc = "backoff"
    /\ task[t].wake <= now
    /\ Suspend(t, StartAttempt([task[t] EXCEPT !.attempt = @ + 1, !.delay = 0, !.wake = 0,
                                               !.resp = NoResp]))
    /\ UNCHANGED <<cvars, models_initialized, disk, image>>

\* The caller takes the result or the exception of its call.
Return(t) ==
    /\ task[t].pc \in {"done", "failed"}
    /\ task' = [task EXCEPT ![t] = IdleTask]
    /\ UNCHANGED <<cvars, models_initialized, disk, _cdn_semaphore,
                   _last_cdn_request, image>>

\* One clock tick passes: stored times move one tick back, wake-up times
\* one tick closer.
TaskLater(tr) == [tr EXCEPT !.wake = Max(@ - 1, 0)]

TickPrediction ==
    /\ timestamps' = Shift(timestamps, 1)
    /\ hist' = HistLater(hist, 1)
    /\ _last_cdn_request' = Later(_last_cdn_request, 1)
    /\ task' = [t \in DOMAIN task |-> TaskLater(task[t])]
    /\ UNCHANGED <<cache, max_size, ttl_seconds, lastOp, models_initialized, disk,
                   _cdn_semaphore, image>>

\* An answer to the request of a direct call of preprocess_image arrives.
PreprocessResponse(t, resp) ==
    /\ task[t].pc = "http"
    /\ task[t].call = "preprocess"
    /\ LET tr == [task[t] EXCEPT !.resp = resp]
           h == Handle(resp, tr.attempt, IsDiscordCdn(tr.url)) IN
       task' = [task EXCEPT ![t] =
                  IF h.do = "retry"
                  THEN [tr EXCEPT !.pc = "backoff", !.delay = h.delay,
                                  !.wake = now + SleepTicks(h.delay)]
                  ELSE IF h.do = "raise" THEN Raised(tr, h.err)
                  ELSE Returned(tr, <<"tensor", tr.stage>>)]
    /\ UNCHANGED <<cvars, models_initialized, disk, _cdn_semaphore,
                   _last_cdn_request, image>>

\* Callers of preprocess_image on CDN URLs only: the rate limiter under load.
\* The CDN answers each request with an image or refuses it, so that every
\* call makes one request.
CdnCallers == 1..NumCdnCallers

CdnResponses == {r \in Responses : r.kind = "status" /\ r.status \in {200, 403} /\ r.body \in {"", "image"}}

InitCdn ==
    /\ cache = EmptyDict
    /\ timestamps = EmptyDict
    /\ max_size = MaxSize
    /\ ttl_seconds = TtlTicks
    /\ lastOp = NoOp
    /\ hist = [k \in {} |-> NoHist]
    /\ InitPrediction
    /\ disk = Artifacts
    /\ image = [u \in CdnUrls |-> "pikachu"]
    /\ task = [t \in CdnCallers |-> IdleTask]

NextCdn ==
    \/ TickPrediction
    \/ \E t \in DOMAIN task, url \in CdnUrls : Preprocess(t, url)
    \/ \E t \in DOMAIN task : SemAcquire(t)
    \/ \E t \in DOMAIN task : RateLimitWake(t)
    \/ \E t \in DOMAIN task, resp \in CdnResponses : PreprocessResponse(t, resp)
    \/ \E t \in DOMAIN task : Return(t)

SpecCdn == InitCdn /\ [][NextCdn]_vars

\* Callers of preprocess_image on CDN URLs that answer every request with a
\* 404.
NotFound == [kind |-> "status", status |-> 404, body |-> "", retry_after |-> "absent"]

Init404 ==
    /\ cache = EmptyDict
    /\ timestamps = EmptyDict
    /\ max_size = MaxSize
    /\ ttl_seconds = TtlTicks
    /\ lastOp = NoOp
    /\ hist = [k \in {} |-> NoHist]
    /\ InitPrediction
    /\ disk = Artifacts
    /\ image = [u \in CdnUrls |-> "pikachu"]
    /\ task = [t \in 1..NumCallers |-> IdleTask]

Next404 ==
    \/ TickPrediction
    \/ \E t \in DOMAIN task, url \in CdnUrls : Preprocess(t, url)
    \/ \E t \in DOMAIN task : RateLimitWake(t)
    \/ \E t \in DOMAIN task : PreprocessResponse(t, NotFound)
    \/ \E t \in DOMAIN task : BackoffWake(t)
    \/ \E t \in DOMAIN task : Return(t)

Spec404 == Init404 /\ [][Next404]_vars

\* One caller of preprocess_image at a time, on any URL; the host may give
\* every answer.
InitRetry ==
    /\ cache = EmptyDict
    /\ timestamps = EmptyDict
    /\ max_size = MaxSize
    /\ ttl_seconds = TtlTicks
    /\ lastOp = NoOp
    /\ hist = [k \in {} |-> NoHist]
    /\ InitPrediction
    /\ disk = Artifacts
    /\ image = [u \in Urls |-> "pikachu"]
    /\ task = [t \in {1} |-> IdleTask]

NextRetry ==
    \/ TickPrediction
    \/ \E t \in DOMAIN task, url \in Urls : Preprocess(t, url)
    \/ \E t \in DOMAIN task : RateLimitWake(t)
    \/ \E t \in DOMAIN task, resp \in Responses : PreprocessResponse(t, resp)
    \/ \E t \in DOMAIN task : BackoffWake(t)
    \/ \E t \in DOMAIN task : Return(t)

SpecRetry == InitRetry /\ [][NextRetry]_vars

\* Callers that each make one call of preprocess_image on the CDN: the
\* first asks for an attachment whose requests may get every answer or
\* none, the others for one that is served or refused.  The scheduling is what the event loop and the
\* timeouts of the requests guarantee: time passes, a sleep that is over
\* ends, a request is answered or times out (ClientTimeout, lines 243-252),
\* and a waiter of the semaphore runs once a slot is free.
LiveUrl(t) ==
    IF t = 1 THEN [host |-> "cdn.discordapp.com", path |-> "/a.png"]
    ELSE [host |-> "media.discordapp.net", path |-> "/b.png"]

LiveResponses(url) ==
    IF url.path = "/a.png"
    THEN {r \in Responses :
            \/ r.kind \in {"timeout", "client_error"}
            \/ r.kind = "status" /\ r.status \in {404, 429, 503} /\ r.retry_after = "absent"
            \/ r.kind = "status" /\ r.status = 200 /\ r.body = "image"}
    ELSE CdnResponses

NextLive ==
    \/ TickPrediction
    \/ \E t \in DOMAIN task : Preprocess(t, LiveUrl(t))
    \/ \E t \in DOMAIN task : SemAcquire(t)
    \/ \E t \in DOMAIN task : RateLimitWake(t)
    \/ \E t \in DOMAIN task : \E resp \in LiveResponses(task[t].url) :
          PreprocessResponse(t, resp)
    \/ \E t \in DOMAIN task : BackoffWake(t)

Fairness ==
    /\ WF_vars(TickPrediction)
    /\ \A t \in CdnCallers :
          /\ WF_vars(SemAcquire(t))
          /\ WF_vars(RateLimitWake(t))
          /\ WF_vars(BackoffWake(t))
          /\ WF_vars(\E resp \in LiveResponses(task[t].url) : PreprocessResponse(t, resp))

SpecLive == InitCdn /\ [][NextLive]_vars /\ Fairness

\* Requests to the CDN hosts that are in flight.
InFlightCdn == {t \in DOMAIN task : task[t].pc = "http" /\ IsDiscordCdn(task[t].url)}

\* C9: at most 3 requests to the CDN hosts are in flight at the same time.
C9_AtMostThreeInFlight == Cardinality(InFlightCdn) <= CdnConcurrency

\* A step in which task t leaves the rate limiter and sends a request to
\* the CDN.
Released(t) ==
    /\ task'[t].pc = "http"
    /\ IsDiscordCdn(task'[t].url)
    /\ task[t].pc # "http" \/ task[t].stage # task'[t].stage

\* C10: any two requests to the CDN are released by the rate limiter at
\* least _cdn_min_interval apart, whichever callers they belong to: at each
\* release, the release before it is at least the interval back.
C10_ReleasesSpaced ==
    [][\A t \in DOMAIN task :
          Released(t) => now - _last_cdn_request >= CdnMinInterval]_vars

\* ---------------------------------------------- Prediction: the cascade
\* self.predictor.cache.get(cache_key) of the on_message handler, made in
\* the run in which predict has returned: no time passes in between.
handler_lookup_late(c, ts, key, ttl) == get(c, ts, key, now + Past, now + Past, ttl)

handler_lookup(c, ts, key, ttl) == get(c, ts, key, now, now, ttl)

\* cached_result[2] if cached_result else "unknown"
model_used_of(cached_result) ==
    IF cached_result # None THEN cached_result[3] ELSE "unknown"

\* The run of the caller once predict has returned ret, with the cache as
\* predict left it: a handler looks the entry up for its tag, any other
\* caller has its result.
AfterPredict(tr, c, ts, ret) ==
    IF tr.handler
    THEN LET cached_result == handler_lookup(c, ts, _generate_cache_key(tr.url),
                                             ttl_seconds) IN
         [cache |-> cached_result.cache, timestamps |-> cached_result.timestamps,
          tr |-> [Returned(tr, ret) EXCEPT !.model_used = model_used_of(cached_result.ret)]]
    ELSE [cache |-> c, timestamps |-> ts, tr |-> Returned(tr, ret)]

\* self.cache.set(cache_key, result) and return: lines 417-420, 444-447 and
\* 450-453, with the run of the caller that follows the return without a
\* suspension.
Finish_uncached(t, tr, name, confidence, model_used) ==
    /\ task' = [task EXCEPT ![t] = Returned(tr, <<name, confidence>>)]
    /\ UNCHANGED <<cache, timestamps, hist, _cdn_semaphore, _last_cdn_request>>

Finish(t, tr, name, confidence, model_used) ==
    LET cache_key == _generate_cache_key(tr.url) IN
    \E r \in set(cache, timestamps, cache_key, <<name, confidence, model_used>>,
                 now, now, ttl_seconds, max_size) :
       LET h == AfterPredict(tr, r.cache, r.timestamps, <<name, confidence>>) IN
       /\ cache' = h.cache
       /\ timestamps' = h.timestamps
       /\ hist' = [k \in DOMAIN hist |->
                     IF k = cache_key
                     THEN [t |-> now, v |-> <<name, confidence>>, live |-> TRUE]
                     ELSE IF k \in r.evicted THEN NoHist
                     ELSE hist[k]]
       /\ task' = [task EXCEPT ![t] = h.tr]
       /\ UNCHANGED <<_cdn_semaphore, _last_cdn_request>>

\* The rest of initialize_models once the artifacts are there: it reads the
\* labels and the metadata and builds both sessions, which raises on a
\* malformed file (load_ok false); else it sets the flag and predict goes on
\* with the first image request.
Load(t, tr, load_ok) ==
    IF load_ok
    THEN /\ models_initialized' = TRUE
         /\ Suspend(t, StartAttempt([tr EXCEPT !.loaded = TRUE]))
    ELSE /\ task' = [task EXCEPT ![t] = Raised(tr, "Failed to load the models")]
         /\ UNCHANGED <<models_initialized, _cdn_semaphore, _last_cdn_request>>

\* An exception of preprocess_image or predict_with_model leaves predict:
\* nothing is written to the cache.
Fail_cached(t, failed) ==
    /\ task' = [task EXCEPT ![t] = failed]
    /\ cache' = Put(cache, _generate_cache_key(failed.url), <<"unknown", 0, "failed">>)
    /\ timestamps' = Put(timestamps, _generate_cache_key(failed.url), now)
    /\ UNCHANGED <<hist, _cdn_semaphore, _last_cdn_request>>

Fail(t, failed) ==
    /\ task' = [task EXCEPT ![t] = failed]
    /\ UNCHANGED <<cache, timestamps, hist, _cdn_semaphore, _last_cdn_request>>

\* A caller calls predict(url, session): the cache lookup and, on a miss,
\* the run up to the first await that suspends (the artifact downloads of
\* initialize_models, or the first image request).
Predict(t, url, has_session, load_ok) ==
    /\ task[t].pc = "idle"
    /\ LET g == get(cache, timestamps, _generate_cache_key(url), now, now, ttl_seconds)
           tr == [IdleTask EXCEPT !.call = "predict", !.url = url, !.stage = "primary"]
           missing == download_tasks(disk) IN
       /\ cache' = g.cache
       /\ timestamps' = g.timestamps
       /\ IF g.ret # None
          THEN /\ task' = [task EXCEPT ![t] =
                             Returned([tr EXCEPT !.hit = TRUE], <<g.ret[1], g.ret[2]>>)]
               /\ UNCHANGED <<models_initialized, _cdn_semaphore, _last_cdn_request>>
          ELSE IF ~has_session
          THEN /\ task' = [task EXCEPT ![t] = Raised(tr, "HTTP session not available")]
               /\ UNCHANGED <<models_initialized, _cdn_semaphore, _last_cdn_request>>
          ELSE IF ~NeedsInit(models_initialized)
          THEN /\ Suspend(t, StartAttempt(tr))
               /\ UNCHANGED models_initialized
          ELSE IF missing # {}
          THEN /\ task' = [task EXCEPT ![t] = [tr EXCEPT !.pc = "init", !.dl = missing]]
               /\ UNCHANGED <<models_initialized, _cdn_semaphore, _last_cdn_request>>
          ELSE Load(t, tr, load_ok)
    /\ UNCHANGED <<max_size, ttl_seconds, lastOp, hist, disk, image>>

\* A message with an image arrives in a channel the on_message handler
\* predicts for: the handler looks the URL up in the cache and, on a miss,
\* calls predict, which looks it up again and runs up to its first await
\* that suspends.
OnMessage(t, url, has_session, load_ok) ==
    /\ task[t].pc = "idle"
    /\ LET cache_key == _generate_cache_key(url)
           cached_result == get(cache, timestamps, cache_key, now, now, ttl_seconds)
           g == get(cached_result.cache, cached_result.timestamps, cache_key,
                    now, now, ttl_seconds)
           tr == [IdleTask EXCEPT !.call = "predict", !.url = url, !.stage = "primary",
                                  !.handler = TRUE]
           missing == download_tasks(disk) IN
       IF cached_result.ret # None
       THEN /\ cache' = cached_result.cache
            /\ timestamps' = cached_result.timestamps
            /\ task' = [task EXCEPT ![t] =
                          [Returned([tr EXCEPT !.hit = TRUE],
                                    <<cached_result.ret[1], cached_result.ret[2]>>)
                             EXCEPT !.model_used = cached_result.ret[3]]]
            /\ UNCHANGED <<models_initialized, _cdn_semaphore, _last_cdn_request>>
       ELSE IF g.ret # None
       THEN LET h == AfterPredict([tr EXCEPT !.hit = TRUE], g.cache, g.timestamps,
                                  <<g.ret[1], g.ret[2]>>) IN
            /\ cache' = h.cache
            /\ timestamps' = h.timestamps
            /\ task' = [task EXCEPT ![t] = h.tr]
            /\ UNCHANGED <<models_initialized, _cdn_semaphore, _last_cdn_request>>
       ELSE /\ cache' = g.cache
            /\ timestamps' = g.timestamps
            /\ IF ~has_session
               THEN /\ task' = [task EXCEPT ![t] = Raised(tr, "HTTP session not available")]
                    /\ UNCHANGED <<models_initialized, _cdn_semaphore, _last_cdn_request>>
               ELSE IF ~NeedsInit(models_initialized)
               THEN /\ Suspend(t, StartAttempt(tr))
                    /\ UNCHANGED models_initialized
               ELSE IF missing # {}
               THEN /\ task' = [task EXCEPT ![t] = [tr EXCEPT !.pc = "init", !.dl = missing]]
                    /\ UNCHANGED <<models_initialized, _cdn_semaphore, _last_cdn_request>>
               ELSE Load(t, tr, load_ok)
    /\ UNCHANGED <<max_size, ttl_seconds, lastOp, hist, disk, image>>

\* The downloads that ensure_models_cached gathered are over, with the given
\* answers; every download that opened its file has left one, and dl keeps
\* the downloads that failed.
\* If one failed, initialize_models raises; else it loads the models.
InitDownloaded(t, answers, load_ok) ==
    /\ task[t].pc = "init"
    /\ DOMAIN answers = task[t].dl
    /\ LET results == [a \in task[t].dl |-> download_file(answers[a])]
           ok == {a \in task[t].dl : results[a]}
           tr == [task[t] EXCEPT !.dl = @ \ ok] IN
       /\ disk' = disk \cup {a \in task[t].dl : dest_path_exists(answers[a])}
       /\ IF ~all(results)
          THEN /\ task' = [task EXCEPT ![t] =
                             Raised(tr, "Failed to download some model files")]
               /\ UNCHANGED <<models_initialized, _cdn_semaphore, _last_cdn_request>>
          ELSE Load(t, tr, load_ok)
    /\ UNCHANGED <<cvars, image>>

\* An answer to an image request of predict arrives: the rest of the pass of
\* the retry loop and, with an image, the inference of the stage (run_ok: the
\* session runs without raising) and the decision that follows it.
PredictResponse(t, resp, run_ok) ==
    /\ task[t].pc = "http"
    /\ task[t].call = "predict"
    /\ LET tr == [task[t] EXCEPT !.resp = resp]
           h == Handle(resp, tr.attempt, IsDiscordCdn(tr.url))
           ran == [tr EXCEPT !.inferred = @ \cup {tr.stage}, !.resp = NoResp]
           out == predict_with_model(image[tr.url], tr.stage) IN
       IF h.do = "retry"
       THEN /\ task' = [task EXCEPT ![t] =
                          [tr EXCEPT !.pc = "backoff", !.delay = h.delay,
                                     !.wake = now + SleepTicks(h.delay)]]
            /\ UNCHANGED <<cache, timestamps, hist, _cdn_semaphore,
                           _last_cdn_request>>
       ELSE IF h.do = "raise"
       THEN Fail(t, Raised(tr, h.err))
       ELSE IF ~run_ok
       THEN Fail(t, Raised(ran, "inference failed"))
       ELSE IF tr.stage = "primary"
       THEN IF AcceptPrimary(out[2])
            THEN Finish(t, ran, out[1], FormatConfidence(out[2]), "primary")
            ELSE /\ Suspend(t, StartAttempt([ran EXCEPT !.stage = "secondary",
                                                        !.attempt = 0,
                                                        !.requests = 0,
                                                        !.primary = out]))
                 /\ UNCHANGED <<cache, timestamps, hist>>
       ELSE IF AcceptSecondary(out[2])
            THEN Finish(t, ran, out[1], FormatConfidence(out[2]), "secondary")
            ELSE Finish(t, ran, Fallback(tr.primary, out)[1],
                        FormatConfidence(Fallback(tr.primary, out)[2]),
                        "primary_fallback")
    /\ UNCHANGED <<max_size, ttl_seconds, lastOp, models_initialized, disk, image>>

\* The callers of predict.
Callers == 1..NumCallers

\* The answers the image host gives concurrent callers of predict: an image
\* or a refusal, so that every preprocess_image call makes one request.
PredictResponses == CdnResponses

\* Outcomes of the downloads dl gathered by one initialisation: all succeed,
\* or one of them fails, with any of the failing answers.
DownloadOutcomes(dl) ==
    {[a \in dl |-> 200]}
    \cup {[a \in dl |-> IF a = bad THEN answer ELSE 200] :
            bad \in dl, answer \in DownloadAnswers \ {200}}

\* Every combination of successful and failed downloads.
SoloOutcomes(dl) == [dl -> {200, 404, -1}]

\* The images of the URLs: every image is served by every URL in one of the
\* initial states.
NextImage(img) ==
    CASE img = "pikachu" -> "onix"
      [] img = "onix"    -> "eevee"
      [] img = "eevee"   -> "zubat"
      [] img = "zubat"   -> "abra"
      [] img = "abra"    -> "pikachu"

ImageMaps ==
    {[u \in Urls |-> IF IsDiscordCdn(u) THEN img ELSE NextImage(img)] : img \in Images}

Init ==
    /\ cache = EmptyDict
    /\ timestamps = EmptyDict
    /\ max_size = MaxSize
    /\ ttl_seconds = TtlTicks
    /\ lastOp = NoOp
    /\ hist = [k \in {_generate_cache_key(u) : u \in Urls} |-> NoHist]
    /\ InitPrediction
    /\ disk = {}
    /\ image \in ImageMaps
    /\ task = [t \in Callers |-> IdleTask]

Next ==
    \/ TickPrediction
    \/ \E t \in DOMAIN task, url \in Urls, has_session \in BOOLEAN, load_ok \in BOOLEAN :
          Predict(t, url, has_session, load_ok)
    \/ \E t \in DOMAIN task : \E answers \in DownloadOutcomes(task[t].dl), load_ok \in BOOLEAN :
          InitDownloaded(t, answers, load_ok)
    \/ \E t \in DOMAIN task : RateLimitWake(t)
    \/ \E t \in DOMAIN task, resp \in PredictResponses, run_ok \in BOOLEAN : PredictResponse(t, resp, run_ok)
    \/ \E t \in DOMAIN task : Return(t)

Spec == Init /\ [][Next]_vars

\* One caller of predict at a time; the image host may give every answer and
\* every combination of the downloads may fail.
InitSolo ==
    /\ cache = EmptyDict
    /\ timestamps = EmptyDict
    /\ max_size = 1
    /\ ttl_seconds = TtlTicks
    /\ lastOp = NoOp
    /\ hist = [k \in {_generate_cache_key(u) : u \in Urls} |-> NoHist]
    /\ InitPrediction
    /\ disk = {}
    /\ image \in ImageMaps
    /\ task = [t \in {1} |-> IdleTask]

NextSolo ==
    \/ TickPrediction
    \/ \E t \in DOMAIN task, url \in Urls, has_session \in BOOLEAN, load_ok \in BOOLEAN :
          Predict(t, url, has_session, load_ok)
    \/ \E t \in DOMAIN task : \E answers \in SoloOutcomes(task[t].dl), load_ok \in BOOLEAN :
          InitDownloaded(t, answers, load_ok)
    \/ \E t \in DOMAIN task : RateLimitWake(t)
    \/ \E t \in DOMAIN task, resp \in Responses, run_ok \in BOOLEAN : PredictResponse(t, resp, run_ok)
    \/ \E t \in DOMAIN task : BackoffWake(t)
    \/ \E t \in DOMAIN task : Return(t)

SpecSolo == InitSolo /\ [][NextSolo]_vars

\* Messages handled concurrently by on_message, in a process that finds the
\* artifacts on disk; the cache holds one entry, so that the entry of one
\* prediction is evicted by the next.
InitHandler ==
    /\ cache = EmptyDict
    /\ timestamps = EmptyDict
    /\ max_size = 1
    /\ ttl_seconds = TtlTicks
    /\ lastOp = NoOp
    /\ hist = [k \in {_generate_cache_key(u) : u \in Urls} |-> NoHist]
    /\ InitPrediction
    /\ disk = Artifacts
    /\ image \in ImageMaps
    /\ task = [t \in Callers |-> IdleTask]

NextHandler ==
    \/ TickPrediction
    \/ \E t \in DOMAIN task, url \in Urls, has_session \in BOOLEAN, load_ok \in BOOLEAN :
          OnMessage(t, url, has_session, load_ok)
    \/ \E t \in DOMAIN task : RateLimitWake(t)
    \/ \E t \in DOMAIN task, resp \in PredictResponses, run_ok \in BOOLEAN : PredictResponse(t, resp, run_ok)
    \/ \E t \in DOMAIN task : Return(t)

SpecHandler == InitHandler /\ [][NextHandler]_vars

\* ---------------------------------------------------- cascade properties
\* The outputs of the two models for the image of task t's URL.
PrimaryOf(t) == PrimaryOutput(image[task[t].url])

SecondaryOf(t) == SecondaryOutput(image[task[t].url])

\* Task t is in, or has returned from, a predict call that missed the cache.
Uncached(t) == task[t].call = "predict" /\ ~task[t].hit

\* C1: a predict call on an uncached URL whose primary percentage is at
\* least the primary threshold requests no secondary image, runs no
\* secondary inference, and returns the primary label with the primary's
\* formatted confidence.
C1_PrimaryAccepted ==
    \A t \in DOMAIN task :
        (Uncached(t) /\ PrimaryOf(t)[2] >= PrimaryThreshold) =>
            /\ "secondary" \notin task[t].fetched
            /\ "secondary" \notin task[t].inferred
            /\ task[t].pc = "done" =>
                 task[t].ret = <<PrimaryOf(t)[1], FormatConfidence(PrimaryOf(t)[2])>>

\* A call has returned the primary result of an image whose primary
\* percentage is exactly the threshold.
C1_Witness ==
    \E t \in DOMAIN task :
        /\ Uncached(t)
        /\ task[t].pc = "done"
        /\ PrimaryOf(t)[2] = PrimaryThreshold
        /\ task[t].inferred = {"primary"}

Finishes(t) ==
    /\ task[t].pc = "http"
    /\ task[t].call = "predict"
    /\ task'[t].pc = "done"

Calls(t) ==
    /\ task[t].pc = "idle"
    /\ task'[t].pc # "idle"
    /\ task'[t].call = "predict"

\* C4: a predict call for a URL for which an earlier call succeeded, made
\* within the TTL of that call's entry and with the entry not evicted,
\* returns the pair the earlier call returned, without any request and
\* without any inference.
C4_SecondCallFromCache ==
    [][\A t \in DOMAIN task :
          Calls(t) =>
            LET first == hist[_generate_cache_key(task'[t].url)] IN
            (first.live /\ now - first.t <= ttl_seconds) =>
                /\ task'[t].pc = "done"
                /\ task'[t].ret = first.v
                /\ task'[t].requests = 0
                /\ task'[t].fetched = {}
                /\ task'[t].inferred = {}
                /\ disk' = disk]_vars

\* A second call has returned from the cache, at the last tick of the TTL.
C4_Witness ==
    \E t \in DOMAIN task :
        /\ task[t].pc = "done"
        /\ task[t].hit
        /\ hist[_generate_cache_key(task[t].url)].live
        /\ now - hist[_generate_cache_key(task[t].url)].t = ttl_seconds
        /\ task[t].ret = hist[_generate_cache_key(task[t].url)].v

\* ----------------------------------------------- initialisation properties
\* The calls that are downloading the artifacts or have loaded the sessions.
Initializers == {t \in DOMAIN task : task[t].pc = "init" \/ task[t].loaded}

\* C11: of the predict calls that run concurrently while the models are
\* not loaded, at most one downloads the artifacts and loads the sessions.
C11_SingleInitializer == Cardinality(Initializers) <= 1

\* C12: once initialize_models has completed successfully, a later predict
\* call starts no download and loads no session, and the initialized flag
\* stays set.
C12_LaterInitIsNoOp ==
    [][models_initialized =>
          /\ models_initialized'
          /\ \A t \in DOMAIN task :
                Calls(t) =>
                    /\ task'[t].pc # "init"
                    /\ task'[t].dl = {}
                    /\ ~task'[t].loaded
                    /\ disk' = disk]_vars

\* A call made after the initialisation has gone on to its image request
\* without loading anything.
C12_Witness ==
    /\ models_initialized
    /\ \E t \in DOMAIN task :
          /\ Uncached(t)
          /\ task[t].pc = "http"
          /\ ~task[t].loaded
          /\ \E o \in DOMAIN task : o # t /\ task[o].loaded

\* A step in which the downloads of task t's initialisation come to an end.
Downloaded(t) == task[t].pc = "init" /\ task'[t].pc # "init"

\* C13: if one of the downloads that ensure_models_cached started fails,
\* whatever the failing answer, the initialisation raises, loads no session
\* and leaves models_initialized as it was.
C13_FailedDownloadFailsInit ==
    [][\A t \in DOMAIN task :
          (Downloaded(t) /\ task'[t].dl # {}) =>
              /\ task'[t].pc = "failed"
              /\ task'[t].err = "Failed to download some model files"
              /\ ~task'[t].loaded
              /\ task'[t].ret = None
              /\ models_initialized' = models_initialized]_vars

\* An initialisation has failed on one download after the others wrote
\* their files, and the models are not initialized.
C13_Witness ==
    /\ ~models_initialized
    /\ \E t \in DOMAIN task :
          /\ task[t].pc = "failed"
          /\ Cardinality(task[t].dl) = 1
          /\ disk = Artifacts \ task[t].dl

\* The errors with which a failed initialisation ends the predict call.
InitErrors == {"Failed to download some model files", "Failed to load the models"}

\* C14: predict has returned a result only if the initialisation has
\* completed successfully before, a call that raised has no result, and the
\* cache holds entries only if the models are initialized.
C14_NoResultBeforeInit ==
    /\ \A t \in DOMAIN task :
          /\ (task[t].call = "predict" /\ task[t].pc = "done") =>
                models_initialized /\ task[t].ret # None
          /\ task[t].pc = "failed" => task[t].ret = None
          /\ (task[t].pc = "failed" /\ task[t].err \in InitErrors) =>
                ~task[t].loaded /\ task[t].fetched = {}
    /\ cache # EmptyDict => models_initialized

\* The first caller has been served after its own initialisation, and its
\* result is cached.
C14_Witness ==
    /\ models_initialized
    /\ \E t \in DOMAIN task :
          /\ Uncached(t)
          /\ task[t].pc = "done"
          /\ task[t].loaded
          /\ _generate_cache_key(task[t].url) \in DOMAIN cache

\* --------------------------------------------------------- retry properties
\* C15: on a CDN URL that answers every request with a 404, preprocess_image
\* sends exactly max_retries requests, sleeps 1 s, 2 s and 4 s between them
\* (delays are in half seconds), then raises the not-found error, and sends
\* nothing after that.
C15_NotFoundExhaustsBudget ==
    \A t \in DOMAIN task :
        LET tr == task[t] IN
        /\ tr.requests <= MaxRetries
        /\ tr.pc # "done"
        /\ tr.pc = "http" => tr.requests = tr.attempt + 1
        /\ tr.pc = "backoff" =>
              /\ tr.requests = tr.attempt + 1
              /\ tr.attempt \in 0..2
              /\ tr.delay = (CASE tr.attempt = 0 -> 2 [] tr.attempt = 1 -> 4
                               [] tr.attempt = 2 -> 8)
        /\ tr.pc = "failed" =>
              /\ tr.err = "Image not found (404) - URL may be expired or deleted"
              /\ tr.requests = MaxRetries

\* A call has raised after its fourth 404.
C15_Witness ==
    \E t \in DOMAIN task :
        /\ task[t].pc = "failed"
        /\ task[t].resp = NotFound
        /\ task[t].requests = 4
        /\ IsDiscordCdn(task[t].url)

\* The last request of task t has been answered with the given status, and
\* the call has neither returned nor gone on to its next request.
AnsweredStatus(t, statuses) ==
    /\ task[t].pc \in {"backoff", "failed"}
    /\ task[t].resp.kind = "status"
    /\ task[t].resp.status \in statuses

\* Attempts remain after the current one.
AttemptsRemain(t) == task[t].attempt < MaxRetries - 1

\* The call of task t sleeps the given number of half seconds before its
\* next attempt.
Retries(t, delay) == task[t].pc = "backoff" /\ task[t].delay = delay

\* The call of task t has raised err right after the answer, its requests
\* being those of the attempts made so far.
Raises(t, err) ==
    /\ task[t].pc = "failed"
    /\ task[t].err = err
    /\ task[t].delay = 0
    /\ task[t].requests = task[t].attempt + 1

C17_RateLimitedRetried ==
    \A t \in DOMAIN task :
        AnsweredStatus(t, {429}) =>
            IF AttemptsRemain(t)
            THEN /\ task[t].pc = "backoff"
                 /\ task[t].resp.retry_after = "absent" => task[t].delay = 4
                 /\ task[t].resp.retry_after = "1" => task[t].delay = 2
            ELSE Raises(t, "Rate limited by Discord CDN after max_retries attempts")

\* The statuses that preprocess_image does not retry for the URL of task t.
NonRetryable(t) ==
    {st \in 100..599 : st \notin {200, 429, 404} /\ st \notin 500..599}
    \cup (IF IsDiscordCdn(task[t].url) THEN {} ELSE {404})

\* C18: a status other than 200, 429, 404 and 5xx, and a 404 for a URL that
\* is not on the CDN, make preprocess_image raise at once, without a sleep
\* and without another request: after exactly one request when it answers
\* the first attempt.
C18_NonRetryableFailsAtOnce ==
    \A t \in DOMAIN task :
        AnsweredStatus(t, NonRetryable(t)) =>
            /\ Raises(t, IF task[t].resp.status = 404
                         THEN "Image not found (404) - URL may be expired or deleted"
                         ELSE "HTTP error fetching image")
            /\ task[t].attempt = 0 => task[t].requests = 1

\* A URL that is not on the CDN has answered the first request with a 404
\* and the call has raised.
C18_Witness ==
    \E t \in DOMAIN task :
        /\ AnsweredStatus(t, {404})
        /\ ~IsDiscordCdn(task[t].url)
        /\ task[t].pc = "failed"
        /\ task[t].requests = 1

\* ------------------------------------------------------ failure properties
\* A step in which the predict call of task t raises out of an image request
\* of the given stage.
FailsIn(t, stage) ==
    /\ task[t].call = "predict"
    /\ task[t].pc = "http"
    /\ task[t].stage = stage
    /\ task'[t].pc = "failed"

\* The keys whose entry a step creates or changes.
Written == {k \in DOMAIN cache' : k \notin DOMAIN cache \/ cache'[k] # cache[k]}

\* C19: a predict call whose primary fetch, decode or inference fails raises,
\* has no result and leaves the cache as it was; an entry is only written by
\* a predict call that returns the result of an inference it has run.
C19_FailureLeavesCache ==
    [][/\ \A t \in DOMAIN task :
             FailsIn(t, "primary") =>
                 /\ task'[t].ret = None
                 /\ task'[t].err # ""
                 /\ cache' = cache
                 /\ timestamps' = timestamps
       /\ \A k \in Written :
             \E t \in DOMAIN task :
                 /\ Finishes(t)
                 /\ k = _generate_cache_key(task[t].url)
                 /\ task[t].stage \in task'[t].inferred
                 /\ task'[t].ret = <<cache'[k][1], cache'[k][2]>>]_vars

\* The primary inference of a call has failed while the cache holds the
\* entry of an earlier call.
C19_Witness ==
    \E t \in DOMAIN task :
        /\ task[t].pc = "failed"
        /\ task[t].stage = "primary"
        /\ task[t].inferred = {"primary"}
        /\ cache # EmptyDict
        /\ _generate_cache_key(task[t].url) \notin DOMAIN cache

\* ------------------------------------------------- concurrency properties
\* What the cascade decides for an image, from the outputs of the two
\* models: the entry a predict call that runs alone writes to the cache.
Cascade(img) ==
    LET p == PrimaryOutput(img)
        s == SecondaryOutput(img) IN
    IF p[2] >= PrimaryThreshold
    THEN <<p[1], FormatConfidence(p[2]), "primary">>
    ELSE IF s[2] >= SecondaryThreshold
    THEN <<s[1], FormatConfidence(s[2]), "secondary">>
    ELSE <<p[1], FormatConfidence(p[2]), "primary_fallback">>

\* The stages the cascade runs for an image.
Stages(img) ==
    IF PrimaryOutput(img)[2] >= PrimaryThreshold
    THEN {"primary"} ELSE {"primary", "secondary"}

\* Two distinct predict calls for the same URL that both missed the cache
\* and have both returned.
BothDone(a, b) ==
    /\ a # b
    /\ Uncached(a) /\ task[a].pc = "done"
    /\ Uncached(b) /\ task[b].pc = "done"
    /\ task[a].url = task[b].url

\* C20: two concurrent predict calls for the same uncached URL each fetch
\* the image and run the inference of every stage of the cascade
\* themselves, return the same result, and leave in the cache the entry
\* either of them alone would have written.
C20_BothRunFullCascade ==
    \A a, b \in DOMAIN task :
        BothDone(a, b) =>
            LET img == image[task[a].url]
                k == _generate_cache_key(task[a].url) IN
            /\ task[a].fetched = Stages(img) /\ task[a].inferred = Stages(img)
            /\ task[b].fetched = Stages(img) /\ task[b].inferred = Stages(img)
            /\ task[a].ret = task[b].ret
            /\ task[a].ret = <<Cascade(img)[1], Cascade(img)[2]>>
            /\ k \in DOMAIN cache => cache[k] = Cascade(img)

\* Two calls for the same URL have both gone through both stages and the
\* entry is in the cache.
C20_Witness ==
    \E a, b \in DOMAIN task :
        /\ BothDone(a, b)
        /\ task[a].inferred = {"primary", "secondary"}
        /\ task[b].inferred = {"primary", "secondary"}
        /\ _generate_cache_key(task[a].url) \in DOMAIN cache

\* --------------------------------------------------- cache-write properties
\* C22: a predict call that returns after an inference writes one cache
\* entry, under the key of its URL and stamped with the present: the entry's
\* label and confidence string are the pair the call returns and its tag
\* names the branch of the cascade that was taken; no other entry is written.
C22_WritesOneEntry ==
    [][\A t \in DOMAIN task :
          Finishes(t) =>
              LET k == _generate_cache_key(task[t].url) IN
              /\ Written = {k}
              /\ cache'[k] = Cascade(image[task[t].url])
              /\ task'[t].ret = <<cache'[k][1], cache'[k][2]>>
              /\ timestamps'[k] = now]_vars

\* A call whose primary model gave ("Pikachu", 0.92) has returned that
\* and the cache holds ("Pikachu", "92.00%", "primary") for its URL.
C22_Witness ==
    \E t \in DOMAIN task :
        /\ Uncached(t)
        /\ task[t].pc = "done"
        /\ task[t].ret = <<"Pikachu", 9200>>
        /\ _generate_cache_key(task[t].url) \in DOMAIN cache
        /\ cache[_generate_cache_key(task[t].url)] = <<"Pikachu", 9200, "primary">>

\* C23: every get and every set sweeps first: an entry that was older than
\* ttl_seconds when the operation started is not in the cache after it,
\* whichever key the operation was called with; only the key a set was
\* called with is there again, with the entry that set stored.
C23_EveryOperationSweeps ==
    [][(GetStep \/ SetStep) =>
        \A k \in DOMAIN timestamps :
            now - timestamps[k] > ttl_seconds =>
                \/ /\ k \notin DOMAIN cache'
                   /\ k \notin DOMAIN timestamps'
                \/ /\ SetStep
                   /\ k = lastOp'.key
                   /\ hist'[k].live /\ cache'[k] = hist'[k].v
                   /\ timestamps'[k] = hist'[k].t]_vars

\* A get has just run and the entry of another key, set longer ago than the
\* TTL and never evicted, is gone, while the entry of the key asked for is still there.
C23_Witness ==
    /\ lastOp.op = "get"
    /\ lastOp.ret # None
    /\ \E k \in DOMAIN hist :
          /\ k # lastOp.key
          /\ hist[k].live
          /\ now - hist[k].t > ttl_seconds
          /\ k \notin DOMAIN cache

\* ------------------------------------------------------ rounding properties
\* The confidence strings (in hundredths of a percent, the thresholds being
\* in thousandths) with their tags: those of the cache entries and those of
\* the calls that have returned after an inference.
Tagged ==
    {<<cache[k][2], cache[k][3]>> : k \in DOMAIN cache}
    \cup {<<task[t].ret[2], Cascade(image[task[t].url])[3]>> :
             t \in {u \in DOMAIN task : Uncached(u) /\ task[u].pc = "done"}}

EndsInSecondary(t) ==
    /\ task[t].call = "predict"
    /\ task[t].pc = "http"
    /\ task[t].stage = "secondary"
    /\ task'[t].pc \in {"done", "failed"}

C29_UpdateEvictsNothing ==
    [][(/\ SetStep
        /\ lastOp'.key \in DOMAIN cache
        /\ now - timestamps[lastOp'.key] <= ttl_seconds) =>
          /\ cache'[lastOp'.key] = hist'[lastOp'.key].v
          /\ timestamps'[lastOp'.key] = now
          /\ \A j \in Unexpired \ {lastOp'.key} :
                j \in DOMAIN cache' /\ cache'[j] = cache[j]
          /\ Cardinality(DOMAIN cache') = Cardinality(Unexpired)]_vars

\* C25: the value map and the timestamp map of the cache have the same
\* keys, after any sequence of gets and sets and any passing of time.
C25_SameKeys == DOMAIN cache = DOMAIN timestamps

\* A set has evicted an entry of a full cache that holds more than one
\* entry, after an entry had expired.
C25_Witness ==
    /\ lastOp.op = "set"
    /\ lastOp.evicted # {}
    /\ Cardinality(DOMAIN cache) > 1
    /\ \E k \in DOMAIN hist :
          hist[k].live /\ now - hist[k].t > ttl_seconds /\ k \notin DOMAIN timestamps

\* ------------------------------------------------------ download properties
\* C24: the initialisation requests exactly the artifacts whose file does
\* not exist: a call that starts downloads requests every missing artifact
\* and no other, a call made when all five exist requests none, and the
\* downloads of a call create files of the artifacts it requested only; no
\* step removes a file.
C24_DownloadsTheMissing ==
    [][/\ disk \subseteq disk'
       /\ \A t \in DOMAIN task :
             /\ Calls(t) =>
                   /\ task'[t].dl \in {{}, Artifacts \ disk}
                   /\ task'[t].pc = "init" <=>
                         (task'[t].dl # {} /\ ~models_initialized /\ ~task'[t].hit)
                   /\ (Artifacts \subseteq disk) => task'[t].pc # "init"
                   /\ disk' = disk
             /\ Downloaded(t) => (disk' \ disk) \subseteq task[t].dl
       /\ disk' # disk => \E t \in DOMAIN task : Downloaded(t)]_vars

\* A call is downloading some of the artifacts, those that are missing,
\* while the files of the others exist.
C24_Witness ==
    \E t \in DOMAIN task :
        /\ task[t].pc = "init"
        /\ disk # {}
        /\ task[t].dl # {}
        /\ task[t].dl = Artifacts \ disk

\* A step in which the initialisation of task t fails on a download.
DownloadFails(t) ==
    /\ Downloaded(t)
    /\ task'[t].err = "Failed to download some model files"

\* C28: when an initialisation fails on a download, models_initialized
\* stays false and no file exists at the path of an artifact whose download
\* failed; a call made while the models are not initialized requests the
\* artifacts that are missing on disk, and when the downloads of a call
\* all succeed the call goes on to load the models: the flag is set unless
\* the load itself raises.
C28_FailedDownloadRetried ==
    [][\A t \in DOMAIN task :
          /\ DownloadFails(t) =>
                /\ ~models_initialized'
                /\ task'[t].dl # {}
                /\ task'[t].dl \cap disk' = {}
          /\ (Calls(t) /\ ~models_initialized /\ task'[t].pc = "init") =>
                task'[t].dl = Artifacts \ disk
          /\ (Downloaded(t) /\ ~DownloadFails(t)) =>
                /\ Artifacts \subseteq disk'
                /\ models_initialized' \/ task'[t].err = "Failed to load the models"]_vars

\* ------------------------------------------------------ handler properties
\* The source tags of the cascade.
Tags == {"primary", "secondary", "primary_fallback"}

\* C30: when the predict call of a message handler returns after an
\* inference, the lookup the handler makes next finds the entry that call
\* has written, whatever the other handlers have done meanwhile: the tag
\* the handler reads is the tag of the branch taken, never "unknown".
C30_HandlerFindsEntry ==
    [][\A t \in DOMAIN task :
          (Finishes(t) /\ task[t].handler) =>
              LET k == _generate_cache_key(task[t].url) IN
              /\ k \in DOMAIN cache'
              /\ cache'[k] = Cascade(image[task[t].url])
              /\ task'[t].model_used = cache'[k][3]
              /\ task'[t].model_used \in Tags]_vars

\* A handler has read the tag of the entry its prediction wrote after the
\* other handler's prediction for another URL had filled the cache, and
\* that other handler is predicting again.
C30_Witness ==
    \E t, o \in DOMAIN task :
        /\ t # o
        /\ task[t].handler /\ task[t].pc = "done" /\ ~task[t].hit
        /\ task[t].model_used = "primary_fallback"
        /\ _generate_cache_key(task[t].url) \in DOMAIN cache
        /\ task[o].handler /\ task[o].pc = "http"
        /\ task[o].url # task[t].url

\* ---------------------------------------------------- liveness properties
\* C21: every call completes, by returning or raising: it sends at most
\* max_retries requests whatever the answers are, and it does not wait
\* forever for the semaphore, for a sleep or for an answer.
C21_CallsComplete ==
    /\ [](\A t \in DOMAIN task : task[t].requests <= MaxRetries)
    /\ \A t \in CdnCallers :
          (task[t].pc # "idle") ~> (task[t].pc \in {"done", "failed"})


\* The first caller waits for the semaphore before its last attempt, the
\* other callers holding the three slots.
C21_Witness ==
    /\ _cdn_semaphore = 0
    /\ task[1].pc = "sem_wait"
    /\ task[1].attempt = MaxRetries - 1
    /\ task[1].requests = MaxRetries - 1

====
